---------------------------- MODULE Spec2Model ----------------------------
(***************************************************************************)
(* A model of silabs_usb_xpress (src/src/lib.rs): the safe Rust wrappers   *)
(* around the SiUSBXp C shim.  Every wrapper makes one FFI call and maps   *)
(* the returned status in a `match`.  The wrappers are translated from     *)
(* lib.rs; the C shim (SiUSBXp.c, bindings.rs) is not part of src/ and is  *)
(* modelled from the specification (the SI_* backend operators below).     *)
(***************************************************************************)
EXTENDS Integers, Sequences, FiniteSets, TLC

VARIABLES
    conn,        \* backend: connection reference -> [state, rx]
    timeoutPair, \* backend: process-wide [read, write] timeouts, each an i32
    owned,       \* the SiHandle values the caller currently owns
    last,        \* the most recent wrapper call: op, FFI calls, status, outcome
    lastSet,     \* ghost: arguments of the most recent successful set_timeouts
    oldConns,    \* ghost: open connections opened before that set_timeouts
    misuse       \* ghost: the backend was handed a connection that is not open

vars == <<conn, timeoutPair, owned, last, lastSet, oldConns, misuse>>

---------------------------------------------------------------------------
(* Bounds of the model *)

MaxQueue == 1
MaxRead == 2
MaxWrite == 2
NumDevices == 1
MaxQueueStatus == 3
MaxStrLen == 5

(* Program constants *)

BufferSize == 256
DefaultTimeoutSecs == 1

---------------------------------------------------------------------------
(* Backend status codes (names used by the match arms of lib.rs).          *)

SI_SUCCESS == "SI_SUCCESS"
SI_DEVICE_NOT_FOUND == "SI_DEVICE_NOT_FOUND"
SI_INVALID_HANDLE == "SI_INVALID_HANDLE"
SI_READ_ERROR == "SI_READ_ERROR"
SI_WRITE_ERROR == "SI_WRITE_ERROR"
SI_INVALID_REQUEST_LENGTH == "SI_INVALID_REQUEST_LENGTH"
SI_DEVICE_IO_FAILED == "SI_DEVICE_IO_FAILED"
SI_GLOBAL_DATA_ERROR == "SI_GLOBAL_DATA_ERROR"
SI_SYSTEM_ERROR_CODE == "SI_SYSTEM_ERROR_CODE"
SI_READ_TIMED_OUT == "SI_READ_TIMED_OUT"
SI_WRITE_TIMED_OUT == "SI_WRITE_TIMED_OUT"
SI_IO_PENDING == "SI_IO_PENDING"
\* a status of the backend that no match arm of lib.rs names
SI_INVALID_PARAMETER == "SI_INVALID_PARAMETER"

Status ==
    { SI_SUCCESS, SI_DEVICE_NOT_FOUND, SI_INVALID_HANDLE, SI_READ_ERROR,
      SI_WRITE_ERROR, SI_INVALID_REQUEST_LENGTH, SI_DEVICE_IO_FAILED,
      SI_GLOBAL_DATA_ERROR, SI_SYSTEM_ERROR_CODE, SI_READ_TIMED_OUT,
      SI_WRITE_TIMED_OUT, SI_IO_PENDING, SI_INVALID_PARAMETER }

\* enum SilabsUsbXpressError
SilabsUsbXpressError ==
    { "ConnectionError", "InvalidSiHandle", "DeviceNotFound", "SystemErrorCode",
      "GlobalDataError", "ReadError", "ReadTimeOut", "IoPending",
      "InvalidRequestLength", "DeviceIoFailed", "WriteError", "WriteTimeOut" }

\* enum ProductStringType
ProductStringType == { "SerialNumber", "Description", "LinkName", "VID", "PID" }

\* Result<T, SilabsUsbXpressError>, and the panic of unreachable!()
Ok(v) == [kind |-> "Ok", val |-> v]
Err(e) == [kind |-> "Err", val |-> e]
Panic == [kind |-> "Panic", val |-> "unreachable"]

\* Option<Duration>
None == <<>>
Some(d) == <<d>>

---------------------------------------------------------------------------
(* Integers wider than TLC's are sequences of 16-bit limbs, least          *)
(* significant first: a u64 has four limbs, an i32 (two's complement bit   *)
(* pattern) has two.                                                       *)

Limb == 2 ^ 16
SignLimb == 2 ^ 15

U64(l1, l2, l3, l4) == <<l1, l2, l3, l4>>
U64OfSmall(n) == <<n % Limb, n \div Limb, 0, 0>>

\* `x as i32` of an unsigned value: the low 32 bits are kept
AsI32(u) == <<u[1], u[2]>>

\* `x as u64` of an i32: sign extension
AsU64(i) ==
    IF i[2] >= SignLimb THEN <<i[1], i[2], Limb - 1, Limb - 1>>
    ELSE <<i[1], i[2], 0, 0>>

\* `x as usize` of a backend DWORD: a value 0 .. 2^31 - 1 (all the modelled
\* backend reports for counts and bit masks) is unchanged; a negative one
\* would be sign extended to 64 bits, given here as its four limbs
AsUsize(v) == IF v >= 0 THEN v ELSE AsU64(<<v % Limb, (v \div Limb) % Limb>>)

\* `c as u8` of an i8, `c as i8` of a u8
I8AsU8(c) == (c + 256) % 256
U8AsI8(b) == IF b >= 128 THEN b - 256 ELSE b

\* std::time::Duration: whole milliseconds (a u64) and the sub-millisecond
\* rest in microseconds
Duration(ms, us) == [ms |-> ms, us |-> us]
from_millis(ms) == Duration(ms, 0)
from_secs(s) == Duration(U64OfSmall(s * 1000), 0)
as_millis(d) == d.ms

unwrap_or(opt, default) == IF opt = None THEN default ELSE opt[1]

---------------------------------------------------------------------------
(* Strings are sequences of characters; NUL stands for the byte 0.         *)

NUL == "NUL"
LowerCase == <<"a", "b", "c", "d", "e", "f", "g">>
UpperCase == <<"A", "B", "C", "D", "E", "F", "G">>

\* char::to_uppercase on the ASCII letters of the model's alphabet
ToUpperChar(c) ==
    IF \E i \in 1..Len(LowerCase) : LowerCase[i] = c
    THEN UpperCase[CHOOSE i \in 1..Len(LowerCase) : LowerCase[i] = c]
    ELSE c

to_uppercase(s) == [i \in 1..Len(s) |-> ToUpperChar(s[i])]

\* a byte of 0x80 or more that is not part of a UTF-8 sequence
InvalidByte == "xFF"

\* String::from_utf8: an Option here, None for the Err the code unwraps
from_utf8(bytes) ==
    IF \E i \in 1..Len(bytes) : bytes[i] = InvalidByte THEN None ELSE Some(bytes)

\* str::trim_end_matches("\0"): everything up to the last non-NUL character
trim_end_matches_nul(s) ==
    LET keep == {i \in 1..Len(s) : s[i] # NUL}
        n == IF keep = {} THEN 0 ELSE CHOOSE i \in keep : \A j \in keep : j <= i
    IN  SubSeq(s, 1, n)

\* for _ in 0..n { string.insert(0, '0') }
RECURSIVE insert_zeros(_, _)
insert_zeros(s, n) == IF n <= 0 THEN s ELSE insert_zeros(<<"0">> \o s, n - 1)

---------------------------------------------------------------------------
(* The wrappers of lib.rs: what each returns for the status and the        *)
(* out-parameters its one FFI call produced.                               *)

\* devices_count: match status
devices_count(status, num) ==
    CASE status = SI_SUCCESS -> Ok(AsUsize(num))
      [] status = SI_DEVICE_NOT_FOUND -> Err("DeviceNotFound")
      [] OTHER -> Panic

\* product_string: the VID/PID normalisation of the trimmed buffer
normalize_id_pads_right(string) ==
    to_uppercase(IF Len(string) < 4
                 THEN string \o insert_zeros(<<>>, 4 - Len(string))
                 ELSE string)

normalize_id(string) ==
    to_uppercase(IF Len(string) < 4
                 THEN insert_zeros(string, 4 - Len(string))
                 ELSE string)

product_string(status, buffer, product_string_type) ==
    CASE status = SI_SUCCESS ->
            IF from_utf8(buffer) = None
            THEN Panic
            ELSE LET string == trim_end_matches_nul(from_utf8(buffer)[1])
                 IN  IF product_string_type \in {"PID", "VID"}
                     THEN Ok(normalize_id(string))
                     ELSE Ok(string)
      [] status = SI_DEVICE_NOT_FOUND -> Err("DeviceNotFound")
      [] OTHER -> Panic

\* struct SiHandle
SiHandle(inner, device_ix) == [inner |-> inner, device_ix |-> device_ix]

\* SiHandle::open: match status
open(status, handle, device_ix) ==
    CASE status = SI_SUCCESS -> Ok(SiHandle(handle, device_ix))
      [] status = SI_INVALID_HANDLE -> Err("InvalidSiHandle")
      [] status = SI_SYSTEM_ERROR_CODE -> Err("SystemErrorCode")
      [] status = SI_GLOBAL_DATA_ERROR -> Err("GlobalDataError")
      [] OTHER -> Panic

\* SiHandle::close: match status
close(status) ==
    CASE status = SI_SUCCESS -> Ok(<<>>)
      [] status = SI_INVALID_HANDLE -> Err("InvalidSiHandle")
      [] status = SI_SYSTEM_ERROR_CODE -> Err("SystemErrorCode")
      [] status = SI_GLOBAL_DATA_ERROR -> Err("GlobalDataError")
      [] OTHER -> Panic

\* close(self): the handle is moved into the call whatever it returns
close_retains_handle_on_error(handles, h, status) ==
    IF status = SI_SUCCESS THEN handles \ {h} ELSE handles

owned_after_close(handles, h, status) == handles \ {h}

\* SiHandle::read: buffer.set_len(bytes_returned), then match status
read_timeout_as_ok(status, buffer, bytes_returned) ==
    IF status \in {SI_SUCCESS, SI_READ_TIMED_OUT}
    THEN Ok([i \in 1..bytes_returned |-> I8AsU8(buffer[i])])
    ELSE Err("ReadError")

read_timeout_keeps_partial(status, buffer, bytes_returned) ==
    IF status = SI_SUCCESS \/ (status = SI_READ_TIMED_OUT /\ bytes_returned > 0)
    THEN Ok([i \in 1..bytes_returned |-> I8AsU8(buffer[i])])
    ELSE IF status = SI_READ_TIMED_OUT THEN Err("ReadTimeOut") ELSE Panic

read(status, buffer, bytes_returned) ==
    CASE status = SI_SUCCESS ->
            Ok([i \in 1..bytes_returned |-> I8AsU8(buffer[i])])
      [] status = SI_READ_ERROR -> Err("ReadError")
      [] status = SI_INVALID_HANDLE -> Err("InvalidSiHandle")
      [] status = SI_READ_TIMED_OUT -> Err("ReadTimeOut")
      [] status = SI_IO_PENDING -> Err("IoPending")
      [] status = SI_SYSTEM_ERROR_CODE -> Err("SystemErrorCode")
      [] status = SI_INVALID_REQUEST_LENGTH -> Err("InvalidRequestLength")
      [] status = SI_DEVICE_IO_FAILED -> Err("DeviceIoFailed")
      [] OTHER -> Panic

\* SiHandle::write: the i8 buffer handed to SI_Write
write_buffer(to_write) == [i \in 1..Len(to_write) |-> U8AsI8(to_write[i])]

\* SiHandle::write: match status
write_reports_payload_length(status, bytes_written, to_write) ==
    IF status = SI_SUCCESS THEN Ok(Len(to_write)) ELSE Err("WriteError")

write_timeout_as_read_timeout(status, bytes_written, to_write) ==
    CASE status = SI_SUCCESS -> Ok(AsUsize(bytes_written))
      [] status = SI_WRITE_TIMED_OUT -> Err("ReadTimeOut")
      [] OTHER -> Err("WriteError")

write(status, bytes_written, to_write) ==
    CASE status = SI_SUCCESS -> Ok(AsUsize(bytes_written))
      [] status = SI_WRITE_ERROR -> Err("WriteError")
      [] status = SI_INVALID_REQUEST_LENGTH -> Err("InvalidRequestLength")
      [] status = SI_INVALID_HANDLE -> Err("InvalidSiHandle")
      [] status = SI_WRITE_TIMED_OUT -> Err("WriteTimeOut")
      [] status = SI_IO_PENDING -> Err("IoPending")
      [] status = SI_SYSTEM_ERROR_CODE -> Err("SystemErrorCode")
      [] status = SI_DEVICE_IO_FAILED -> Err("DeviceIoFailed")
      [] OTHER -> Panic

\* SiHandle::flush_buffers: match status
flush_buffers(status) ==
    CASE status = SI_SUCCESS -> Ok(<<>>)
      [] status = SI_INVALID_HANDLE -> Err("InvalidSiHandle")
      [] status = SI_SYSTEM_ERROR_CODE -> Err("SystemErrorCode")
      [] OTHER -> Panic

\* SiHandle::check_rx_queue: match status
check_rx_queue_masks_overrun(status, num_bytes_in_queue, queue_status) ==
    IF status = SI_SUCCESS
    THEN Ok(<<AsUsize(num_bytes_in_queue), AsUsize((queue_status \div 2) * 2)>>)
    ELSE Err("DeviceIoFailed")

check_rx_queue(status, num_bytes_in_queue, queue_status) ==
    CASE status = SI_SUCCESS ->
            Ok(<<AsUsize(num_bytes_in_queue), AsUsize(queue_status)>>)
      [] status = SI_INVALID_HANDLE -> Err("InvalidSiHandle")
      [] status = SI_DEVICE_IO_FAILED -> Err("DeviceIoFailed")
      [] OTHER -> Panic

\* set_timeouts: the two i32 arguments handed to SI_SetTimeouts
set_timeouts_args_swapped(rd, wr) ==
    << AsI32(as_millis(unwrap_or(wr, from_secs(DefaultTimeoutSecs)))),
       AsI32(as_millis(unwrap_or(rd, from_secs(DefaultTimeoutSecs)))) >>

set_timeouts_args(rd, wr) ==
    << AsI32(as_millis(unwrap_or(rd, from_secs(DefaultTimeoutSecs)))),
       AsI32(as_millis(unwrap_or(wr, from_secs(DefaultTimeoutSecs)))) >>

\* set_timeouts: match status
set_timeouts(status) ==
    CASE status = SI_SUCCESS -> Ok(<<>>)
      [] status = SI_DEVICE_IO_FAILED -> Err("DeviceIoFailed")
      [] OTHER -> Panic

\* struct Timeout
Timeout(rd, wr) == [read |-> rd, write |-> wr]

\* timeouts: match status
timeouts(status, rd, wr) ==
    CASE status = SI_SUCCESS ->
            Ok(Timeout(from_millis(AsU64(rd)), from_millis(AsU64(wr))))
      [] status = SI_DEVICE_IO_FAILED -> Err("DeviceIoFailed")
      [] OTHER -> Panic

\* The wrappers, and the FFI function each calls
Ops ==
    { "devices_count", "product_string", "open", "close", "read", "write",
      "flush_buffers", "check_rx_queue", "set_timeouts", "timeouts" }

ffi_function(op) ==
    CASE op = "devices_count" -> "SI_GetNumDevices"
      [] op = "product_string" -> "SI_GetProductString"
      [] op = "open" -> "SI_Open"
      [] op = "close" -> "SI_Close"
      [] op = "read" -> "SI_Read"
      [] op = "write" -> "SI_Write"
      [] op = "flush_buffers" -> "SI_FlushBuffers"
      [] op = "check_rx_queue" -> "SI_CheckRXQueue"
      [] op = "set_timeouts" -> "SI_SetTimeouts"
      [] op = "timeouts" -> "SI_GetTimeouts"

\* The FFI calls a wrapper issues before it returns: the one in its unsafe
\* block, whatever status comes back (no arm of a match calls again)
ffi_calls_reissue_when_pending(op, status) ==
    IF status \in {SI_IO_PENDING, SI_READ_TIMED_OUT, SI_WRITE_TIMED_OUT}
    THEN <<ffi_function(op), ffi_function(op)>>
    ELSE <<ffi_function(op)>>

ffi_calls(op, status) == <<ffi_function(op)>>

---------------------------------------------------------------------------
(* The backend (the C shim over the USB library), from the specification.  *)
(* Each SI_* operator is the set of responses the backend may give in the  *)
(* current state: a status, the out-parameters, and the backend's state    *)
(* after the call.  Any status may come back; only SI_SUCCESS (and a timed *)
(* out read, which may have moved bytes) changes the backend's state.  An  *)
(* out-parameter the backend does not write on failure is indeterminate in *)
(* the caller; no arm of a wrapper's match reads it then, so it is given   *)
(* here as a fixed value.                                                  *)

\* the connection references the backend can hand out
Conns == {1, 2}
ByteVals == {65, 200}
I8Vals == {U8AsI8(b) : b \in ByteVals}
Chars == {"0", "a", "F", "g", InvalidByte}

Min(a, b) == IF a < b THEN a ELSE b
SeqsUpTo(S, n) == UNION {[1..k -> S] : k \in 0..n}

ConnRec(state, rx) == [state |-> state, rx |-> rx]
IsOpen(c) == conn[c].state = "open"
FreeConns == {c \in Conns : conn[c].state = "free"}
LowestFree == CHOOSE c \in FreeConns : \A d \in FreeConns : c <= d

\* the default of the process-wide timeout pair: 1000 ms each
SI_DefaultTimeouts ==
    [read |-> AsI32(U64OfSmall(1000)), write |-> AsI32(U64OfSmall(1000))]

SI_GetNumDevices ==
    {[status |-> s, num |-> IF s = SI_SUCCESS THEN NumDevices ELSE 0] : s \in Status}

\* the caller's buffer, [0i8; 256], and the descriptor written into it
ZeroedBuffer == [i \in 1..BufferSize |-> NUL]
FilledBuffer(d) == d \o SubSeq(ZeroedBuffer, Len(d) + 1, BufferSize)

SI_GetProductString(device_ix, descriptors) ==
    IF device_ix >= NumDevices
    THEN {[status |-> SI_DEVICE_NOT_FOUND, stored |-> <<>>, buffer |-> ZeroedBuffer]}
    ELSE {[status |-> SI_SUCCESS, stored |-> d, buffer |-> FilledBuffer(d)] :
              d \in descriptors}
         \cup {[status |-> s, stored |-> <<>>, buffer |-> ZeroedBuffer] :
                  s \in Status \ {SI_SUCCESS}}

\* an index past the attached devices is not found; a claimed device gets a
\* connection of its own, never one used before
SI_Open(device_ix) ==
    IF device_ix >= NumDevices
    THEN {[status |-> SI_DEVICE_NOT_FOUND, handle |-> 0, conn |-> conn]}
    ELSE {[status |-> s, handle |-> 0, conn |-> conn] : s \in Status \ {SI_SUCCESS}}
         \cup (IF FreeConns = {} THEN {}
               ELSE {[status |-> SI_SUCCESS, handle |-> LowestFree,
                      conn |-> [conn EXCEPT ![LowestFree] = ConnRec("open", 0)]]})

\* a connection that is not open is refused
SI_Refused == [status |-> SI_INVALID_HANDLE, conn |-> conn]

\* the connection is released whatever status the teardown reports
SI_Close(c) ==
    IF ~IsOpen(c) THEN {SI_Refused}
    ELSE {[status |-> s, conn |-> [conn EXCEPT ![c] = ConnRec("closed", 0)]] :
              s \in Status}

Taken(c, k) == [conn EXCEPT ![c].rx = @ - k]

\* success moves 1..n of the pending bytes; a read that reaches the deadline
\* reports SI_READ_TIMED_OUT, with no byte or fewer than n bytes moved
SI_Read(c, n) ==
    IF ~IsOpen(c) THEN {SI_Refused @@ [data |-> <<>>]}
    ELSE {[status |-> SI_SUCCESS, data |-> d, conn |-> Taken(c, k)] :
              <<k, d>> \in UNION {{k} \X [1..k -> I8Vals] : k \in 1..Min(n, conn[c].rx)}}
         \cup {[status |-> SI_READ_TIMED_OUT, data |-> d, conn |-> Taken(c, k)] :
              <<k, d>> \in UNION {{k} \X [1..k -> I8Vals] :
                                     k \in {0} \cup 1..Min(n - 1, conn[c].rx)}}
         \cup {[status |-> s, data |-> <<>>, conn |-> conn] :
                  s \in Status \ {SI_SUCCESS, SI_READ_TIMED_OUT}}

\* success accepts 0..len bytes of the buffer
SI_Write(c, buffer) ==
    IF ~IsOpen(c) THEN {SI_Refused @@ [bytes_written |-> 0]}
    ELSE {[status |-> SI_SUCCESS, bytes_written |-> m, conn |-> conn] :
              m \in 0..Len(buffer)}
         \cup {[status |-> s, bytes_written |-> 0, conn |-> conn] :
                  s \in Status \ {SI_SUCCESS}}

SI_FlushBuffers(c) ==
    IF ~IsOpen(c) THEN {SI_Refused}
    ELSE {[status |-> s,
           conn |-> IF s = SI_SUCCESS THEN [conn EXCEPT ![c].rx = 0] ELSE conn] :
              s \in Status}

\* the pending byte count and a status bit mask (1: overrun, 2: ready)
SI_CheckRXQueue(c) ==
    IF ~IsOpen(c) THEN {SI_Refused @@ [num |-> 0, queue_status |-> 0]}
    ELSE {[status |-> SI_SUCCESS, num |-> conn[c].rx, queue_status |-> q, conn |-> conn] :
              q \in 0..MaxQueueStatus}
         \cup {[status |-> s, num |-> 0, queue_status |-> 0, conn |-> conn] :
                  s \in Status \ {SI_SUCCESS}}

SI_SetTimeouts(rd, wr) ==
    {[status |-> s,
      pair |-> IF s = SI_SUCCESS THEN [read |-> rd, write |-> wr] ELSE timeoutPair] :
         s \in Status}

SI_GetTimeouts ==
    {[status |-> s,
      read |-> IF s = SI_SUCCESS THEN timeoutPair.read ELSE <<0, 0>>,
      write |-> IF s = SI_SUCCESS THEN timeoutPair.write ELSE <<0, 0>>] :
         s \in Status}

---------------------------------------------------------------------------
(* The state machine: one action per wrapper call, and the device sending  *)
(* a byte.  `last` records the call: the wrapper, the connection and the   *)
(* argument it was given, the FFI calls it issued, the status and          *)
(* out-parameters that came back, the timeout the backend applied and the  *)
(* wrapper's outcome.  A panic (unreachable!()) ends the program.          *)

NoConn == 0
NoBound == <<>>

Call(op, c, arg, status, resp, bound, out) ==
    [op |-> op, conn |-> c, arg |-> arg, calls |-> ffi_calls(op, status),
     status |-> status, resp |-> resp, bound |-> bound, out |-> out]

Running == last.out.kind # "Panic"

\* the (read, write) arguments given to set_timeouts: 500 ms, 1.5 ms and
\* 2^31 ms besides None
Millis500 == from_millis(U64OfSmall(500))
Micros1500 == Duration(U64OfSmall(1), 500)
Millis2p31 == from_millis(U64(0, SignLimb, 0, 0))

TimeoutInputs ==
    { <<None, None>>, <<Some(Millis500), None>>,
      <<Some(Micros1500), Some(Millis2p31)>>, <<Some(Millis2p31), Some(Millis500)>> }

\* the device indexes given to product_string and open: the first device and
\* the first index past the attached devices
DeviceIndexes == {0, NumDevices}

WritePayloads == {[i \in 1..k |-> 200] : k \in 0..MaxWrite}

SampleDescriptors == { <<"a", "F">> }
SampleKinds == { "SerialNumber", "VID" }
AllDescriptors == SeqsUpTo(Chars, MaxStrLen)

Init ==
    /\ conn = [c \in Conns |-> ConnRec("free", 0)]
    /\ timeoutPair = SI_DefaultTimeouts
    /\ owned = {}
    /\ last = [op |-> "none", conn |-> NoConn, arg |-> <<>>, calls |-> <<>>,
               status |-> SI_SUCCESS, resp |-> <<>>, bound |-> NoBound,
               out |-> Ok(<<>>)]
    /\ lastSet = <<>>
    /\ oldConns = {}
    /\ misuse = FALSE

DevicesCount ==
    /\ Running
    /\ \E r \in SI_GetNumDevices :
          last' = Call("devices_count", NoConn, <<>>, r.status, r.num, NoBound,
                       devices_count(r.status, r.num))
    /\ UNCHANGED <<conn, timeoutPair, owned, lastSet, oldConns, misuse>>

ProductStringOf(descriptors, kinds) ==
    /\ Running
    /\ \E device_ix \in DeviceIndexes, product_string_type \in kinds :
          \E r \in SI_GetProductString(device_ix, descriptors) :
             last' = Call("product_string", NoConn, product_string_type,
                          r.status, r.stored, NoBound,
                          product_string(r.status, r.buffer, product_string_type))
    /\ UNCHANGED <<conn, timeoutPair, owned, lastSet, oldConns, misuse>>

ProductString == ProductStringOf(SampleDescriptors, SampleKinds)

ProductStringAny ==
    last.op = "none" /\ ProductStringOf(AllDescriptors, ProductStringType)

Open ==
    /\ Running
    /\ \E device_ix \in DeviceIndexes :
          \E r \in SI_Open(device_ix) :
             LET out == open(r.status, r.handle, device_ix)
             IN  /\ conn' = r.conn
                 /\ owned' = IF out.kind = "Ok" THEN owned \cup {out.val} ELSE owned
                 /\ last' = Call("open", NoConn, device_ix, r.status, r.handle,
                                 NoBound, out)
    /\ UNCHANGED <<timeoutPair, lastSet, oldConns, misuse>>

Close ==
    /\ Running
    /\ \E h \in owned :
          \E r \in SI_Close(h.inner) :
             /\ conn' = r.conn
             /\ owned' = owned_after_close(owned, h, r.status)
             /\ oldConns' = oldConns \ {h.inner}
             /\ misuse' = (misuse \/ ~IsOpen(h.inner))
             /\ last' = Call("close", h.inner, <<>>, r.status, <<>>, NoBound,
                             close(r.status))
    /\ UNCHANGED <<timeoutPair, lastSet>>

Read ==
    /\ Running
    /\ \E h \in owned, bytes_to_read \in 0..MaxRead :
          \E r \in SI_Read(h.inner, bytes_to_read) :
             /\ conn' = r.conn
             /\ misuse' = (misuse \/ ~IsOpen(h.inner))
             /\ last' = Call("read", h.inner, bytes_to_read, r.status, r.data,
                             timeoutPair.read, read(r.status, r.data, Len(r.data)))
    /\ UNCHANGED <<timeoutPair, owned, lastSet, oldConns>>

Write ==
    /\ Running
    /\ \E h \in owned, to_write \in WritePayloads :
          \E r \in SI_Write(h.inner, write_buffer(to_write)) :
             /\ conn' = r.conn
             /\ misuse' = (misuse \/ ~IsOpen(h.inner))
             /\ last' = Call("write", h.inner, Len(to_write), r.status, r.bytes_written,
                             timeoutPair.write,
                             write(r.status, r.bytes_written, to_write))
    /\ UNCHANGED <<timeoutPair, owned, lastSet, oldConns>>

FlushBuffers ==
    /\ Running
    /\ \E h \in owned :
          \E r \in SI_FlushBuffers(h.inner) :
             /\ conn' = r.conn
             /\ misuse' = (misuse \/ ~IsOpen(h.inner))
             /\ last' = Call("flush_buffers", h.inner, <<>>, r.status, <<>>, NoBound,
                             flush_buffers(r.status))
    /\ UNCHANGED <<timeoutPair, owned, lastSet, oldConns>>

CheckRxQueue ==
    /\ Running
    /\ \E h \in owned :
          \E r \in SI_CheckRXQueue(h.inner) :
             /\ conn' = r.conn
             /\ misuse' = (misuse \/ ~IsOpen(h.inner))
             /\ last' = Call("check_rx_queue", h.inner, <<>>, r.status,
                             <<r.num, r.queue_status>>, NoBound,
                             check_rx_queue(r.status, r.num, r.queue_status))
    /\ UNCHANGED <<timeoutPair, owned, lastSet, oldConns>>

SetTimeouts ==
    /\ Running
    /\ \E given \in TimeoutInputs :
          LET args == set_timeouts_args(given[1], given[2])
          IN  \E r \in SI_SetTimeouts(args[1], args[2]) :
                 /\ timeoutPair' = r.pair
                 /\ lastSet' = IF r.status = SI_SUCCESS
                               THEN <<[read |-> given[1], write |-> given[2]]>>
                               ELSE lastSet
                 /\ oldConns' = IF r.status = SI_SUCCESS
                                THEN {c \in Conns : IsOpen(c)}
                                ELSE oldConns
                 /\ last' = Call("set_timeouts", NoConn, <<>>, r.status, <<>>, NoBound,
                                 set_timeouts(r.status))
    /\ UNCHANGED <<conn, owned, misuse>>

Timeouts ==
    /\ Running
    /\ \E r \in SI_GetTimeouts :
          last' = Call("timeouts", NoConn, <<>>, r.status, <<r.read, r.write>>, NoBound,
                       timeouts(r.status, r.read, r.write))
    /\ UNCHANGED <<conn, timeoutPair, owned, lastSet, oldConns, misuse>>

\* the device sends one byte to an open connection's receive queue
DeviceSends ==
    /\ Running
    /\ \E c \in Conns :
          /\ IsOpen(c)
          /\ conn[c].rx < MaxQueue
          /\ conn' = [conn EXCEPT ![c].rx = @ + 1]
    /\ UNCHANGED <<timeoutPair, owned, last, lastSet, oldConns, misuse>>

Next ==
    \/ DevicesCount
    \/ ProductString
    \/ Open
    \/ Close
    \/ Read
    \/ Write
    \/ FlushBuffers
    \/ CheckRxQueue
    \/ SetTimeouts
    \/ Timeouts
    \/ DeviceSends

Spec == Init /\ [][Next]_vars

\* one product_string call, over every descriptor string of the bounded alphabet
SpecStrings == Init /\ [][ProductStringAny]_vars

---------------------------------------------------------------------------
(* Properties *)

Did(op) == last.op = op
Returned(kind) == last.out.kind = kind
HandleOps == {"read", "write", "flush_buffers", "check_rx_queue"}
HandlesOf(c) == {h \in owned : h.inner = c}

\* C1: session lifecycle.  The backend is never handed a connection that is
\* not open (no call before a successful open, none after close, no second
\* close); every session the caller holds is an open connection with
\* exactly one handle; an open that fails yields no session; after close,
\* whether it returned Ok, an error or panicked, the handle is gone and the
\* connection is released; read, write, flush_buffers and check_rx_queue
\* only ever ran on a session that is open.
C1_SessionLifecycle ==
    /\ ~misuse
    /\ \A h \in owned : IsOpen(h.inner)
    /\ \A c \in Conns : IsOpen(c) => Cardinality(HandlesOf(c)) = 1
    /\ (Did("open") /\ last.status # SI_SUCCESS) => ~Returned("Ok")
    /\ (Did("open") /\ Returned("Ok")) => last.out.val \in owned
    /\ Did("close") => (HandlesOf(last.conn) = {} /\ conn[last.conn].state = "closed")
    /\ last.op \in HandleOps => (IsOpen(last.conn) /\ HandlesOf(last.conn) # {})

\* a close that returned an error while another session is still open
C1_Witness ==
    /\ Did("close")
    /\ Returned("Err")
    /\ \E h \in owned : IsOpen(h.inner)

\* C2: opening an index the backend reports as not found returns the error
\* DeviceNotFound to the caller and yields no session.
C2_InvalidIndexIsDeviceNotFound ==
    (Did("open") /\ last.arg >= NumDevices /\ last.status = SI_DEVICE_NOT_FOUND)
        => (last.out = Err("DeviceNotFound") /\ owned = {})

\* what a side of set_timeouts asks for: the duration, or 1000 ms for None
Asked(opt) == IF opt = None THEN from_millis(U64OfSmall(1000)) ELSE opt[1]
WholeMillis(opt) == Asked(opt).us = 0

\* C3: after a successful set_timeouts(read, write), timeouts() returns for
\* each side the duration given, or 1000 ms where None was given (stated
\* here for durations of whole milliseconds).
C3_TimeoutsReturnsDurationsGiven ==
    (/\ Did("timeouts")
     /\ Returned("Ok")
     /\ lastSet # <<>>
     /\ WholeMillis(lastSet[1].read)
     /\ WholeMillis(lastSet[1].write))
        => last.out.val = Timeout(Asked(lastSet[1].read), Asked(lastSet[1].write))

\* the part of C3 that holds: for durations of whole milliseconds below
\* 2^31 ms, and None (reset to 1000 ms whatever the pair held)
InRange(opt) == WholeMillis(opt) /\ Asked(opt).ms[2] < SignLimb /\ Asked(opt).ms[3] = 0
                    /\ Asked(opt).ms[4] = 0

C3_InRangeRoundTrip ==
    (Did("timeouts") /\ Returned("Ok") /\ lastSet # <<>>)
        => /\ InRange(lastSet[1].read) => last.out.val.read = Asked(lastSet[1].read)
           /\ InRange(lastSet[1].write) => last.out.val.write = Asked(lastSet[1].write)

\* the low 32 bits of the milliseconds a side of set_timeouts asks for
StoredFor(opt) == <<Asked(opt).ms[1], Asked(opt).ms[2]>>

HexDigits == {"0", "1", "2", "3", "4", "5", "6", "7", "8", "9",
              "a", "b", "c", "d", "e", "f", "A", "B", "C", "D", "E", "F"}
UpperHexDigits == {"0", "1", "2", "3", "4", "5", "6", "7", "8", "9",
                   "A", "B", "C", "D", "E", "F"}
Capitals == {<<"a", "A">>, <<"b", "B">>, <<"c", "C">>, <<"d", "D">>,
             <<"e", "E">>, <<"f", "F">>, <<"g", "G">>}
IsCapitalOf(d, c) == <<c, d>> \in Capitals \/ (d = c /\ \A p \in Capitals : p[1] # c)
IdQuery == Did("product_string") /\ Returned("Ok") /\ last.arg \in {"VID", "PID"}

\* C5 as stated: for kind VID or PID a successful product_string returns
\* exactly 4 characters, all upper-case hexadecimal digits, whatever string
\* the backend stored.
C5_AlwaysFourUpperHex ==
    IdQuery => /\ Len(last.out.val) = 4
               /\ \A i \in 1..Len(last.out.val) : last.out.val[i] \in UpperHexDigits

\* C5: for kind VID or PID a successful product_string returns the stored
\* string with every letter capitalised, left-padded with '0' up to 4
\* characters: a stored string longer than 4 keeps its length, one that is
\* not hexadecimal keeps its characters, and a stored string of at most 4
\* hexadecimal digits comes back as exactly 4 upper-case hexadecimal digits.
C5_PaddedToAtLeastFourAndCapitalised ==
    IdQuery =>
        LET stored == last.resp
            result == last.out.val
            pad    == IF Len(stored) < 4 THEN 4 - Len(stored) ELSE 0
        IN  /\ Len(result) = Len(stored) + pad
            /\ \A i \in 1..pad : result[i] = "0"
            /\ \A i \in 1..Len(stored) : IsCapitalOf(result[pad + i], stored[i])
            /\ (Len(stored) <= 4 /\ \A i \in 1..Len(stored) : stored[i] \in HexDigits)
                  => (Len(result) = 4 /\ \A i \in 1..4 : result[i] \in UpperHexDigits)

\* the stored "aF" queried as VID comes back as "00AF"
C5_Witness ==
    /\ IdQuery
    /\ last.resp = <<"a", "F">>
    /\ last.out.val = <<"0", "0", "A", "F">>

\* C6: a read for which the backend reports success with k bytes returns Ok
\* with exactly those k bytes, also when k is less than the number asked
\* for; a read that timed out with zero bytes transferred returns the error
\* ReadTimeOut; and no read returns Ok with an empty byte sequence.
C6_PartialReadIsOkEmptyIsTimeout ==
    Did("read") =>
        /\ last.status = SI_SUCCESS =>
              /\ Returned("Ok")
              /\ Len(last.out.val) = Len(last.resp)
              /\ \A i \in 1..Len(last.resp) : last.out.val[i] = I8AsU8(last.resp[i])
        /\ (last.status = SI_READ_TIMED_OUT /\ Len(last.resp) = 0)
              => last.out = Err("ReadTimeOut")
        /\ Returned("Ok") => Len(last.out.val) > 0

\* a read of 2 that returned Ok with 1 byte
C6_Witness ==
    /\ Did("read")
    /\ Returned("Ok")
    /\ Len(last.out.val) > 0
    /\ Len(last.out.val) < last.arg

\* C7: a write for which the backend reports success returns Ok(m) with m
\* the count the backend reported, equal to the payload length or less,
\* and the write made one backend call only: the rest of a short write is
\* not sent again.
C7_WriteReturnsAcceptedCount ==
    Did("write") =>
        /\ last.status = SI_SUCCESS => last.out = Ok(last.resp)
        /\ Returned("Ok") => (last.out.val <= last.arg /\ last.status = SI_SUCCESS)
        /\ last.calls = <<"SI_Write">>

\* a write of 2 bytes of which the backend accepted fewer
C7_Witness ==
    /\ Did("write")
    /\ Returned("Ok")
    /\ last.arg = MaxWrite
    /\ last.out.val < last.arg

\* C8: a step that is a check_rx_queue call makes the one backend call
\* SI_CheckRXQueue and leaves the sessions, the receive queues and the
\* timeout pair as they were; on backend success it returns the pending
\* count and the queue status exactly as the backend reported them, the
\* pending count being the depth of the session's receive queue.
C8_CheckRxQueueReportsVerbatim ==
    [][(last' # last /\ last'.op = "check_rx_queue") =>
          /\ conn' = conn
          /\ owned' = owned
          /\ timeoutPair' = timeoutPair
          /\ last'.calls = <<"SI_CheckRXQueue">>
          /\ last'.status = SI_SUCCESS =>
                /\ last'.out = Ok(last'.resp)
                /\ last'.resp[1] = conn[last'.conn].rx]_vars

\* check_rx_queue returned a status with the low bit set and bytes pending
C8_Witness ==
    /\ Did("check_rx_queue")
    /\ Returned("Ok")
    /\ last.out.val[1] > 0
    /\ last.out.val[2] % 2 = 1
    /\ conn[last.conn].rx = last.out.val[1]

\* what a wrapper returns for a status, with empty out-parameters
Outcome(op, status) ==
    CASE op = "devices_count"  -> devices_count(status, 0)
      [] op = "product_string" -> product_string(status, <<>>, "VID")
      [] op = "open"           -> open(status, 1, 0)
      [] op = "close"          -> close(status)
      [] op = "read"           -> read(status, <<>>, 0)
      [] op = "write"          -> write(status, 0, <<>>)
      [] op = "flush_buffers"  -> flush_buffers(status)
      [] op = "check_rx_queue" -> check_rx_queue(status, 0, 0)
      [] op = "set_timeouts"   -> set_timeouts(status)
      [] op = "timeouts"       -> timeouts(status, <<0, 0>>, <<0, 0>>)

\* the status each error kind stands for
KindOf ==
    [s \in Status \ {SI_SUCCESS, SI_INVALID_PARAMETER} |->
        CASE s = SI_DEVICE_NOT_FOUND       -> "DeviceNotFound"
          [] s = SI_INVALID_HANDLE         -> "InvalidSiHandle"
          [] s = SI_READ_ERROR             -> "ReadError"
          [] s = SI_WRITE_ERROR            -> "WriteError"
          [] s = SI_INVALID_REQUEST_LENGTH -> "InvalidRequestLength"
          [] s = SI_DEVICE_IO_FAILED       -> "DeviceIoFailed"
          [] s = SI_GLOBAL_DATA_ERROR      -> "GlobalDataError"
          [] s = SI_SYSTEM_ERROR_CODE      -> "SystemErrorCode"
          [] s = SI_READ_TIMED_OUT         -> "ReadTimeOut"
          [] s = SI_WRITE_TIMED_OUT        -> "WriteTimeOut"
          [] s = SI_IO_PENDING             -> "IoPending"]

\* the statuses each operation is documented to return
Documented(op) ==
    {SI_SUCCESS} \cup
    CASE op \in {"devices_count", "product_string"} -> {SI_DEVICE_NOT_FOUND}
      [] op \in {"open", "close"} ->
            {SI_INVALID_HANDLE, SI_SYSTEM_ERROR_CODE, SI_GLOBAL_DATA_ERROR}
      [] op = "read" ->
            {SI_READ_ERROR, SI_READ_TIMED_OUT, SI_IO_PENDING, SI_INVALID_HANDLE,
             SI_SYSTEM_ERROR_CODE, SI_INVALID_REQUEST_LENGTH, SI_DEVICE_IO_FAILED}
      [] op = "write" ->
            {SI_WRITE_ERROR, SI_INVALID_REQUEST_LENGTH, SI_INVALID_HANDLE,
             SI_WRITE_TIMED_OUT, SI_IO_PENDING, SI_SYSTEM_ERROR_CODE,
             SI_DEVICE_IO_FAILED}
      [] op = "flush_buffers" -> {SI_INVALID_HANDLE, SI_SYSTEM_ERROR_CODE}
      [] op = "check_rx_queue" -> {SI_INVALID_HANDLE, SI_DEVICE_IO_FAILED}
      [] op \in {"set_timeouts", "timeouts"} -> {SI_DEVICE_IO_FAILED}

\* every kind of Kinds is returned by some operation for some status
Produced(Kinds) ==
    \A kind \in Kinds : \E op \in Ops, s \in Status : Outcome(op, s) = Err(kind)

\* an error returned is the kind of the status the backend gave, in every
\* operation, and a status the operation is not documented to return panics
MappedOneToOne ==
    last.op \in Ops =>
        /\ Returned("Err") =>
              /\ last.status \in DOMAIN KindOf
              /\ last.out.val = KindOf[last.status]
        /\ last.status \notin Documented(last.op) => last.out = Panic

\* C9 as stated: each of the twelve error kinds is the image of exactly
\* one backend status, the same in every operation, and an undocumented
\* status panics.
C9_TwelveKindsEachFromOneStatus ==
    /\ Did("none") => Produced(SilabsUsbXpressError)
    /\ MappedOneToOne

\* C9: each error kind other than ConnectionError is the image of exactly
\* one backend status, the same status gives the same kind in every
\* operation, ConnectionError is never returned, and a status an
\* operation is not documented to return makes it panic.
C9_ElevenKindsEachFromOneStatus ==
    /\ Did("none") =>
          /\ Produced(SilabsUsbXpressError \ {"ConnectionError"})
          /\ \A op \in Ops, s \in Status : Outcome(op, s) # Err("ConnectionError")
          /\ \A s, t \in DOMAIN KindOf : KindOf[s] = KindOf[t] => s = t
    /\ MappedOneToOne
    /\ Returned("Err") => last.out.val # "ConnectionError"

\* flush_buffers panicked on a status it is not documented to return
C9_Witness ==
    /\ Did("flush_buffers")
    /\ last.status = SI_DEVICE_IO_FAILED
    /\ last.out = Panic

\* C10: every operation made exactly one backend call, whatever status
\* came back: a status other than success never gives Ok, and IoPending
\* and the two timeout statuses are returned as errors from that one call.
C10_OneBackendCallPerOperation ==
    last.op \in Ops =>
        /\ Len(last.calls) = 1
        /\ Returned("Ok") => last.status = SI_SUCCESS
        /\ (last.op \in {"read", "write"} /\ last.status = SI_IO_PENDING)
              => last.out = Err("IoPending")
        /\ (Did("read") /\ last.status = SI_READ_TIMED_OUT)
              => last.out = Err("ReadTimeOut")
        /\ (Did("write") /\ last.status = SI_WRITE_TIMED_OUT)
              => last.out = Err("WriteTimeOut")

\* a read that found the backend pending returned IoPending after one call
C10_Witness ==
    /\ Did("read")
    /\ last.status = SI_IO_PENDING
    /\ last.out = Err("IoPending")
    /\ last.calls = <<"SI_Read">>

\* a read that did not succeed gave the caller an error kind and nothing
\* else, or panicked; bytes came back only with success
ReadErrorIsBare ==
    Did("read") =>
        /\ last.status # SI_SUCCESS =>
              \/ last.out = Panic
              \/ (Returned("Err") /\ last.out.val \in SilabsUsbXpressError)
        /\ Returned("Ok") => last.status = SI_SUCCESS

\* a step that is a read without success: what the backend transferred
\* has left the receive queue and no session or timeout changed
ReadErrorStep ==
    (last' # last /\ last'.op = "read" /\ last'.status # SI_SUCCESS) =>
        /\ conn'[last'.conn].rx = conn[last'.conn].rx - Len(last'.resp)
        /\ \A c \in Conns \ {last'.conn} : conn'[c] = conn[c]
        /\ owned' = owned
        /\ timeoutPair' = timeoutPair
        /\ last'.out.kind # "Ok"

\* C11: every error outcome of read carries no data.  When the backend
\* reports a read timeout, or any other status than success, the caller
\* receives the error kind only, also when bytes had been transferred:
\* those bytes have left the receive queue and are in nothing the call
\* returns.  Bytes reach the caller only together with success.
C11_ReadErrorsCarryNoData == []ReadErrorIsBare /\ [][ReadErrorStep]_vars

\* a read of 2 timed out after 1 byte had been transferred: ReadTimeOut
C11_Witness ==
    /\ Did("read")
    /\ last.status = SI_READ_TIMED_OUT
    /\ Len(last.resp) > 0
    /\ last.out = Err("ReadTimeOut")

\* the duration a side of set_timeouts asks for, cut to whole milliseconds
Truncated(opt) == Duration(as_millis(Asked(opt)), 0)

\* C12: whatever durations the most recent successful set_timeouts was
\* given, timeouts() returns each of them truncated to whole milliseconds;
\* the passage through a signed 32-bit integer changes no value.
C12_RoundTripWithoutWrapAround ==
    (Did("timeouts") /\ Returned("Ok") /\ lastSet # <<>>)
        => /\ last.out.val.read = Truncated(lastSet[1].read)
           /\ last.out.val.write = Truncated(lastSet[1].write)

=============================================================================
